---- MODULE Spec2Model ----
(***************************************************************************)
(* State-machine model of the historical-data section of the monitoring    *)
(* dashboard (HistoricalDataSection.tsx), of the series merge of           *)
(* TemperatureChart.tsx and of the arithmetic of GaugeChart.               *)
(*                                                                         *)
(* One action models one JavaScript task: an event handler together with   *)
(* the render it causes and the effect cleanup / effect run of that        *)
(* render (a click is a discrete event, whose passive effects are flushed  *)
(* before the task ends), a timer callback, a socket listener call, or     *)
(* the continuation of an await.                                           *)
(***************************************************************************)
EXTENDS Integers, Sequences, FiniteSets, TLC

VARIABLES
    mounted,         \* the component instance exists
    socket,          \* useSocket().socket                        (line 44)
    timeRange,       \* useState('realtime')                      (line 40)
    activeTab,       \* useState(0)                               (line 41)
    exportLoading,   \* useState(false)                           (line 42)
    exportAnchorEl,  \* useState(null): TRUE when an element      (line 43)
    historicalData,  \* useState(data.historical)                 (line 45)
    lastUpdate,      \* useState(new Date())                      (line 46)
    timers,          \* the interval timers that are active
    listeners,       \* per socket: 'historical_data_update' listeners
    cleanup,         \* the cleanup closure of the last effect run
    pending,         \* request_historical_data messages not yet answered
    token,           \* localStorage 'authToken'
    exports,         \* exportData invocations suspended at an await
    reloadPending,   \* window.location.reload() was called
    now,             \* the clock read by new Date()
    out,             \* what the last task did that is visible outside
    nocData,         \* TemperatureChart props.nocData
    upsData,         \* TemperatureChart props.upsData
    mergedData,      \* TemperatureChart mergedData, once rendered
    rendered,        \* TemperatureChart has rendered its props
    gaugeProps,      \* GaugeChart props: value, min, max, thresholds
    gauge            \* GaugeChart percentage, data, backgroundData, once rendered

vars == <<mounted, socket, timeRange, activeTab, exportLoading, exportAnchorEl,
          historicalData, lastUpdate, timers, listeners, cleanup, pending,
          token, exports, reloadPending, now, out,
          nocData, upsData, mergedData, rendered, gaugeProps, gauge>>

component == <<timeRange, activeTab, exportLoading, exportAnchorEl,
               historicalData, lastUpdate>>
effectState == <<timers, listeners, cleanup>>
chart == <<nocData, upsData, mergedData, rendered, gaugeProps, gauge>>

----------------------------------------------------------------------------
(* Bounds of the model *)

MaxData == 1        \* distinct sample contents a push may carry
MaxPending == 1     \* requests the server has yet to answer; more are never answered
MaxExports == 1     \* exportData invocations suspended at the same time
MaxSamples == 2     \* samples in a series handed to TemperatureChart
MaxGauge == 2       \* gauge limits and thresholds are drawn from -1..MaxGauge

----------------------------------------------------------------------------
(* Values *)

NoSocket == "null"
Sockets == {"s1", "s2"}

Null == "null"
ToggleValues == {"realtime", "24h", "7d", "30d"}

NoToken == "null"
Tokens == {"", "tokA"}

\* Three tabs are rendered (0, 1, 2); handleTabChange stores any number.
TabValues == 0..3

Clock == 0..1

Statuses == {200, 401, 403, 500}

InitialBundle == [range |-> "props", data |-> 0]

Quiet(op) ==
    [op |-> op, emits |-> <<>>, received |-> <<>>, http |-> <<>>,
     alerts |-> <<>>, downloads |-> <<>>, reload |-> FALSE]

Request(s, r) == [socket |-> s, timeRange |-> r]

RECURSIVE Sent(_, _)
\* The requests awaiting an answer after `emits` were sent, in order. The
\* server answers at most MaxPending of them; it never answers the others.
Sent(P, emits) ==
    IF emits = <<>> THEN P
    ELSE Sent(IF Cardinality(P \cup {Head(emits)}) <= MaxPending
              THEN P \cup {Head(emits)} ELSE P,
              Tail(emits))

----------------------------------------------------------------------------
(* The effect of lines 48-72 *)

\* PollPeriod with the 7d branch lost: 7d polls like 30d.
PollPeriod_No7d(r) ==
    IF r = "realtime" THEN 30000
    ELSE IF r = "24h" THEN 60000
    ELSE 600000

PollPeriod(r) ==
    IF r = "realtime" THEN 30000
    ELSE IF r = "24h" THEN 60000
    ELSE IF r = "7d" THEN 300000
    ELSE 600000

FreshTimerId == CHOOSE i \in 1..(Cardinality(timers) + 1) :
                    \A t \in timers : t.id # i

\* TimersAfterCleanup without clearInterval.
TimersAfterCleanup_NoClear == timers

TimersAfterCleanup ==
    IF cleanup = <<>> THEN timers
    ELSE {t \in timers : t.id # cleanup[1].interval}

\* ListenersAfterCleanup without socket.off.
ListenersAfterCleanup_NoOff == listeners

ListenersAfterCleanup ==
    IF cleanup = <<>> THEN listeners
    ELSE [listeners EXCEPT ![cleanup[1].socket] = 0]

EffectEmits(s, r) == IF s = NoSocket THEN <<>> ELSE <<Request(s, r)>>

EffectTimers(T, s, r) ==
    IF s = NoSocket THEN T
    ELSE T \cup {[id |-> FreshTimerId, socket |-> s, timeRange |-> r,
                  period |-> PollPeriod(r)]}

EffectListeners(L, s) ==
    IF s = NoSocket THEN L ELSE [L EXCEPT ![s] = @ + 1]

EffectCleanup(s) ==
    IF s = NoSocket THEN <<>>
    ELSE <<[socket |-> s, interval |-> FreshTimerId]>>

\* The first run of the effect, after the component is mounted.
RunEffect(s, r) ==
    /\ timers' = EffectTimers(timers, s, r)
    /\ listeners' = EffectListeners(listeners, s)
    /\ cleanup' = EffectCleanup(s)

\* A dependency changed: the cleanup of the last run, then the effect again.
RerunEffect(s, r) ==
    /\ timers' = EffectTimers(TimersAfterCleanup, s, r)
    /\ listeners' = EffectListeners(ListenersAfterCleanup, s)
    /\ cleanup' = EffectCleanup(s)

\* The component is unmounted: the cleanup of the last run only.
CleanupEffect ==
    /\ timers' = TimersAfterCleanup
    /\ listeners' = ListenersAfterCleanup
    /\ cleanup' = <<>>

----------------------------------------------------------------------------
(* Initial state: the page is loaded, the section is not mounted yet *)

Init ==
    /\ mounted = FALSE
    /\ socket = NoSocket
    /\ timeRange = "realtime"
    /\ activeTab = 0
    /\ exportLoading = FALSE
    /\ exportAnchorEl = FALSE
    /\ historicalData = InitialBundle
    /\ lastUpdate = 0
    /\ timers = {}
    /\ listeners = [s \in Sockets |-> 0]
    /\ cleanup = <<>>
    /\ pending = {}
    /\ token = NoToken
    /\ exports = {}
    /\ reloadPending = FALSE
    /\ now = 0
    /\ out = Quiet("load")
    /\ nocData = <<>>
    /\ upsData = <<>>
    /\ mergedData = <<>>
    /\ rendered = FALSE
    /\ gaugeProps = [value |-> 0, min |-> 0, max |-> 1,
                     warning |-> <<0, 1>>, danger |-> <<0, 1>>]
    /\ gauge = <<>>

----------------------------------------------------------------------------
(* Lifecycle *)

\* The state of an instance that does not exist: the values a new instance
\* starts from, except lastUpdate, which Mount sets.
Discarded ==
    /\ timeRange' = "realtime"
    /\ activeTab' = 0
    /\ exportLoading' = FALSE
    /\ exportAnchorEl' = FALSE
    /\ historicalData' = InitialBundle
    /\ lastUpdate' = 0

Mount ==
    /\ ~mounted
    /\ mounted' = TRUE
    /\ timeRange' = "realtime"
    /\ activeTab' = 0
    /\ exportLoading' = FALSE
    /\ exportAnchorEl' = FALSE
    /\ historicalData' = InitialBundle
    /\ lastUpdate' = now
    /\ RunEffect(socket, "realtime")
    /\ pending' = Sent(pending, EffectEmits(socket, "realtime"))
    /\ out' = [Quiet("mount") EXCEPT !.emits = EffectEmits(socket, "realtime")]
    /\ UNCHANGED <<socket, token, exports, reloadPending, now, chart>>

Unmount ==
    /\ mounted
    /\ mounted' = FALSE
    /\ CleanupEffect
    /\ Discarded
    /\ exports' = {[e EXCEPT !.live = FALSE] : e \in exports}
    /\ out' = Quiet("unmount")
    /\ UNCHANGED <<socket, pending, token, reloadPending, now, chart>>

\* The socket context hands the component another socket, or none.
SocketChange(s) ==
    /\ s # socket
    /\ socket' = s
    /\ IF mounted
       THEN /\ RerunEffect(s, timeRange)
            /\ pending' = Sent(pending, EffectEmits(s, timeRange))
            /\ out' = [Quiet("socket") EXCEPT !.emits = EffectEmits(s, timeRange)]
       ELSE /\ UNCHANGED <<effectState, pending>>
            /\ out' = Quiet("socket")
    /\ UNCHANGED <<mounted, component, token, exports, reloadPending, now, chart>>

ClockAdvance ==
    /\ now + 1 \in Clock
    /\ now' = now + 1
    /\ out' = Quiet("clock")
    /\ UNCHANGED <<mounted, socket, component, effectState, pending, token,
                   exports, reloadPending, chart>>

----------------------------------------------------------------------------
(* Polling and pushes *)

\* The interval callback of lines 61-62.
TimerTick(t) ==
    /\ pending' = Sent(pending, <<Request(t.socket, t.timeRange)>>)
    /\ out' = [Quiet("tick") EXCEPT !.emits = <<Request(t.socket, t.timeRange)>>]
    /\ UNCHANGED <<mounted, socket, component, effectState, token, exports,
                   reloadPending, now, chart>>

\* OnHistoricalDataUpdate merging the new samples into the bundle it holds.
OnHistoricalDataUpdate_Merge(newData) ==
    /\ historicalData' = [range |-> newData.range,
                          data |-> historicalData.data + newData.data]
    /\ lastUpdate' = now

\* The listener of lines 55-58, called with the server's answer to a request.
OnHistoricalDataUpdate(newData) ==
    /\ historicalData' = newData
    /\ lastUpdate' = now

\* The server answers request req with a bundle for the range it names; the
\* socket that sent the request receives it and calls its listeners.
Push(req, d) ==
    /\ pending' = pending \ {req}
    /\ out' = [Quiet("push") EXCEPT !.received =
                  <<[socket |-> req.socket,
                     data |-> [range |-> req.timeRange, data |-> d]]>>]
    /\ IF listeners[req.socket] > 0 /\ mounted
       THEN OnHistoricalDataUpdate([range |-> req.timeRange, data |-> d])
       ELSE UNCHANGED <<historicalData, lastUpdate>>
    /\ UNCHANGED <<mounted, socket, timeRange, activeTab, exportLoading,
                   exportAnchorEl, effectState, token, exports, reloadPending,
                   now, chart>>

----------------------------------------------------------------------------
(* Handlers of the view *)

\* HandlerEmits reading the timeRange of the render instead of its argument.
HandlerEmits_Stale(newTimeRange) ==
    IF socket = NoSocket THEN <<>> ELSE <<Request(socket, timeRange)>>

HandlerEmits(newTimeRange) ==
    IF socket = NoSocket THEN <<>> ELSE <<Request(socket, newTimeRange)>>

\* IsSelection without the null check.
IsSelection_Always(newTimeRange) == TRUE

\* newTimeRange !== null of line 78
IsSelection(newTimeRange) == newTimeRange # Null

handleTimeRangeChange(newTimeRange) ==
    /\ mounted
    /\ IF IsSelection(newTimeRange)
       THEN /\ timeRange' = newTimeRange
            /\ IF newTimeRange # timeRange
               THEN RerunEffect(socket, newTimeRange)
               ELSE UNCHANGED effectState
            /\ LET emits == HandlerEmits(newTimeRange) \o
                            (IF newTimeRange # timeRange
                             THEN EffectEmits(socket, newTimeRange) ELSE <<>>)
               IN /\ pending' = Sent(pending, emits)
                  /\ out' = [Quiet("handleTimeRangeChange") EXCEPT !.emits = emits]
       ELSE /\ UNCHANGED <<timeRange, effectState, pending>>
            /\ out' = Quiet("handleTimeRangeChange")
    /\ UNCHANGED <<mounted, socket, activeTab, exportLoading, exportAnchorEl,
                   historicalData, lastUpdate, token, exports, reloadPending,
                   now, chart>>

handleTabChange(newValue) ==
    /\ mounted
    /\ activeTab' = newValue
    /\ out' = Quiet("handleTabChange")
    /\ UNCHANGED <<mounted, socket, timeRange, exportLoading, exportAnchorEl,
                   historicalData, lastUpdate, effectState, pending, token,
                   exports, reloadPending, now, chart>>

----------------------------------------------------------------------------

(* CSV export: exportData, lines 96-160 *)

handleExportClick ==
    /\ mounted
    /\ ~exportLoading                \* the button is disabled while loading
    /\ exportAnchorEl' = TRUE
    /\ out' = Quiet("handleExportClick")
    /\ UNCHANGED <<mounted, socket, timeRange, activeTab, exportLoading,
                   historicalData, lastUpdate, effectState, pending, token,
                   exports, reloadPending, now, chart>>

handleExportClose ==
    /\ mounted
    /\ exportAnchorEl                \* the menu is open
    /\ exportAnchorEl' = FALSE
    /\ out' = Quiet("handleExportClose")
    /\ UNCHANGED <<mounted, socket, timeRange, activeTab, exportLoading,
                   historicalData, lastUpdate, effectState, pending, token,
                   exports, reloadPending, now, chart>>

\* The switch of lines 104-116; "" where the default branch throws.
Endpoint(tab) ==
    CASE tab = 0 -> "temperature"
      [] tab = 1 -> "humidity"
      [] tab = 2 -> "electrical"
      [] OTHER -> ""

\* NoAuthToken testing for the empty string only.
NoAuthToken_EmptyOnly(t) == t = ""

\* !token of line 119
NoAuthToken(t) == t = NoToken \/ t = ""

\* The request of lines 123-130.
ExportRequest(endpoint, range, t) ==
    [endpoint |-> endpoint, timeRange |-> range,
     authorization |-> [scheme |-> "Bearer", credentials |-> t]]

\* The name of line 145.
FileName(endpoint, range, stamp) ==
    [endpoint |-> endpoint, timeRange |-> range, timestamp |-> stamp]

FreshExportId == CHOOSE i \in 1..(Cardinality(exports) + 1) :
                     \A e \in exports : e.id # i

\* catch and finally of lines 154-159, for a throw before the first await.
ExportThrows(message) ==
    /\ exportLoading' = FALSE
    /\ out' = [Quiet("exportData") EXCEPT !.alerts = <<message>>]
    /\ UNCHANGED exports

\* exportData up to its first await.
exportData ==
    /\ mounted
    /\ exportAnchorEl                \* the menu item is shown by the open menu
    /\ exportAnchorEl' = FALSE
    /\ IF Endpoint(activeTab) = ""
       THEN ExportThrows("Invalid tab selection")
       ELSE IF NoAuthToken(token)
       THEN ExportThrows("Authentication token not found")
       ELSE /\ Cardinality(exports) < MaxExports
            /\ exportLoading' = TRUE
            /\ exports' = exports \cup
                   {[id |-> FreshExportId, endpoint |-> Endpoint(activeTab),
                     timeRange |-> timeRange, phase |-> "fetch", live |-> TRUE]}
            /\ out' = [Quiet("exportData") EXCEPT !.http =
                   <<ExportRequest(Endpoint(activeTab), timeRange, token)>>]
    /\ UNCHANGED <<mounted, socket, timeRange, activeTab, historicalData,
                   lastUpdate, effectState, pending, token, reloadPending, now, chart>>

\* ExportLoadingAfter without the finally block.
ExportLoadingAfter_NoFinally(e) == exportLoading

\* finally of line 158, run by the instance that started export e.
ExportLoadingAfter(e) == IF e.live THEN FALSE ELSE exportLoading

\* catch and finally of lines 154-159, after an await.
ExportFails(e, op, message) ==
    /\ exports' = exports \ {e}
    /\ exportLoading' = ExportLoadingAfter(e)
    /\ out' = [Quiet(op) EXCEPT !.alerts = <<message>>]

\* fetch rejects (no response).
FetchRejected(e) ==
    /\ e.phase = "fetch"
    /\ ExportFails(e, "fetchRejected", "Failed to fetch")
    /\ UNCHANGED <<mounted, socket, timeRange, activeTab, exportAnchorEl,
                   historicalData, lastUpdate, effectState, pending, token,
                   reloadPending, now, chart>>

\* response.ok
ResponseOk(status) == 200 <= status /\ status <= 299

\* SessionExpired taking 403 for an expired session too.
SessionExpired_Or403(status) == status \in {401, 403}

\* response.status === 401 of line 133
SessionExpired(status) == status = 401

\* fetch resolves with a response: lines 132-141.
FetchResponse(e, status) ==
    /\ e.phase = "fetch"
    /\ IF ResponseOk(status)
       THEN /\ exports' = (exports \ {e}) \cup {[e EXCEPT !.phase = "blob"]}
            /\ out' = Quiet("fetchResponse")
            /\ UNCHANGED <<exportLoading, token, reloadPending>>
       ELSE IF SessionExpired(status)
       THEN /\ token' = NoToken
            /\ reloadPending' = TRUE
            /\ exports' = exports \ {e}
            /\ exportLoading' = ExportLoadingAfter(e)
            /\ out' = [Quiet("fetchResponse") EXCEPT
                          !.alerts = <<"Session expired. Please log in again.">>,
                          !.reload = TRUE]
       ELSE /\ ExportFails(e, "fetchResponse", "Export failed")
            /\ UNCHANGED <<token, reloadPending>>
    /\ UNCHANGED <<mounted, socket, timeRange, activeTab, exportAnchorEl,
                   historicalData, lastUpdate, effectState, pending, now, chart>>

\* DownloadName reading the view's state when the download happens.
DownloadName_Current(e) == FileName(Endpoint(activeTab), timeRange, now)

\* fileName of line 145, from the endpoint and timeRange the invocation holds.
DownloadName(e) == FileName(e.endpoint, e.timeRange, now)

\* response.blob() resolves: the download of lines 142-152, then finally.
BlobResolved(e) ==
    /\ e.phase = "blob"
    /\ exports' = exports \ {e}
    /\ exportLoading' = ExportLoadingAfter(e)
    /\ out' = [Quiet("blobResolved") EXCEPT
                  !.downloads = <<DownloadName(e)>>]
    /\ UNCHANGED <<mounted, socket, timeRange, activeTab, exportAnchorEl,
                   historicalData, lastUpdate, effectState, pending, token,
                   reloadPending, now, chart>>

\* response.blob() rejects.
BlobRejected(e) ==
    /\ e.phase = "blob"
    /\ ExportFails(e, "blobRejected", "Failed to fetch")
    /\ UNCHANGED <<mounted, socket, timeRange, activeTab, exportAnchorEl,
                   historicalData, lastUpdate, effectState, pending, token,
                   reloadPending, now, chart>>

\* The application stores a token at login.
Login(t) ==
    /\ t # token
    /\ token' = t
    /\ out' = Quiet("login")
    /\ UNCHANGED <<mounted, socket, component, effectState, pending, exports,
                   reloadPending, now, chart>>

\* The reload asked for at line 135 happens: the page starts over.
PageReload ==
    /\ reloadPending
    /\ reloadPending' = FALSE
    /\ mounted' = FALSE
    /\ socket' = NoSocket
    /\ Discarded
    /\ timers' = {}
    /\ listeners' = [s \in Sockets |-> 0]
    /\ cleanup' = <<>>
    /\ pending' = {}
    /\ exports' = {}
    /\ out' = Quiet("load")
    /\ UNCHANGED <<token, now, chart>>

----------------------------------------------------------------------------
(* TemperatureChart.tsx, lines 26-32 *)

JsNull == <<>>
Some(v) == <<v>>

Timestamps == {"t1", "t2"}
SampleValues == {-4, 0, 21}
DataPoints == [timestamp : Timestamps, value : SampleValues]
Series == UNION {[1..n -> DataPoints] : n \in 0..MaxSamples}

\* upsData[index]?.value || null, index counted from 1
UpsTemperature(ups, index) ==
    IF index <= Len(ups) /\ ups[index].value # 0
    THEN Some(ups[index].value)
    ELSE JsNull

MergedData(noc, ups) ==
    [index \in 1..Len(noc) |->
        [timestamp |-> noc[index].timestamp,
         nocTemperature |-> noc[index].value,
         upsTemperature |-> UpsTemperature(ups, index)]]

InitChart ==
    /\ Init!1 /\ Init!2 /\ Init!3 /\ Init!4 /\ Init!5 /\ Init!6 /\ Init!7
    /\ Init!8 /\ Init!9 /\ Init!10 /\ Init!11 /\ Init!12 /\ Init!13
    /\ Init!14 /\ Init!15 /\ Init!16 /\ Init!17
    /\ nocData \in Series
    /\ upsData \in Series
    /\ mergedData = <<>>
    /\ rendered = FALSE
    /\ Init!22 /\ Init!23

TemperatureChart ==
    /\ ~rendered
    /\ mergedData' = MergedData(nocData, upsData)
    /\ rendered' = TRUE
    /\ UNCHANGED <<nocData, upsData, gaugeProps, gauge>>
    /\ UNCHANGED <<mounted, socket, component, effectState, pending, token,
                exports, reloadPending, now, out>>

----------------------------------------------------------------------------
(* GaugeChart, lines 19-53 *)

\* Numbers are exact fractions num / den with den > 0.
Frac(n, d) == [num |-> n, den |-> d]
Whole(n) == Frac(n, 1)
FracSub(a, b) == Frac(a.num * b.den - b.num * a.den, a.den * b.den)
FracAdd(a, b) == Frac(a.num * b.den + b.num * a.den, a.den * b.den)
FracEq(a, b) == a.num * b.den = b.num * a.den
FracLeq(a, b) == a.num * b.den <= b.num * a.den

MathMin(a, b) == IF a <= b THEN a ELSE b
MathMax(a, b) == IF a >= b THEN a ELSE b

\* NormalizedValue without the clamp.
NormalizedValue_NoClamp(value, min, max) == value - min

\* normalizedValue of line 31
NormalizedValue(value, min, max) == MathMax(MathMin(value, max), min) - min

\* (x / range) * 100 of lines 32 and 41-44
Percent(x, range) == Frac(x * 100, range)

\* data of lines 35-38
GaugeData(percentage) ==
    <<[name |-> "Value", value |-> percentage],
      [name |-> "Empty", value |-> FracSub(Whole(100), percentage)]>>

\* backgroundData of lines 41-53
BackgroundData(min, max, warning, danger) ==
    LET range == max - min
        normalLow == Percent(warning[1] - min, range)
        warningLow == Percent(danger[1] - min, range)
        warningHigh == Percent(warning[2] - min, range)
        normalHigh == Percent(danger[2] - min, range)
    IN <<[name |-> "Danger Low", value |-> warningLow],
         [name |-> "Warning Low", value |-> FracSub(normalLow, warningLow)],
         [name |-> "Normal", value |-> FracSub(warningHigh, normalLow)],
         [name |-> "Warning High", value |-> FracSub(normalHigh, warningHigh)],
         [name |-> "Danger High", value |-> FracSub(Whole(100), normalHigh)]>>

GaugeLimits == -1..MaxGauge
GaugeValues == -2..(MaxGauge + 1)

\* A gauge is given limits min < max; value and thresholds are free.
InitGauge ==
    /\ Init!1 /\ Init!2 /\ Init!3 /\ Init!4 /\ Init!5 /\ Init!6 /\ Init!7
    /\ Init!8 /\ Init!9 /\ Init!10 /\ Init!11 /\ Init!12 /\ Init!13
    /\ Init!14 /\ Init!15 /\ Init!16 /\ Init!17
    /\ Init!18 /\ Init!19 /\ Init!20 /\ Init!21
    /\ gaugeProps \in {g \in [value : GaugeValues, min : GaugeLimits,
                               max : GaugeLimits,
                               warning : GaugeLimits \X GaugeLimits,
                               danger : GaugeLimits \X GaugeLimits] :
                           g.min < g.max}
    /\ gauge = <<>>

GaugeChart ==
    /\ gauge = <<>>
    /\ LET g == gaugeProps
           percentage == Percent(NormalizedValue(g.value, g.min, g.max),
                                 g.max - g.min)
       IN gauge' = <<[percentage |-> percentage,
                      data |-> GaugeData(percentage),
                      backgroundData |->
                          BackgroundData(g.min, g.max, g.warning, g.danger)]>>
    /\ UNCHANGED <<nocData, upsData, mergedData, rendered, gaugeProps>>
    /\ UNCHANGED <<mounted, socket, component, effectState, pending, token,
                   exports, reloadPending, now, out>>

----------------------------------------------------------------------------
(* Specifications *)

\* The section with its socket: lifecycle, polling, pushes and the view.
Next ==
    \/ Mount
    \/ Unmount
    \/ \E s \in Sockets \cup {NoSocket} : SocketChange(s)
    \/ ClockAdvance
    \/ \E t \in timers : TimerTick(t)
    \/ \E req \in pending, d \in 1..MaxData : Push(req, d)
    \/ \E r \in (ToggleValues \ {timeRange}) \cup {Null} :
           handleTimeRangeChange(r)
    \/ \E v \in TabValues : handleTabChange(v)
    \/ handleExportClick
    \/ handleExportClose

Spec == Init /\ [][Next]_vars

\* The section without a socket: lifecycle, the view and the CSV export.
NextExport ==
    \/ Mount
    \/ Unmount
    \/ \E r \in (ToggleValues \ {timeRange}) \cup {Null} :
           handleTimeRangeChange(r)
    \/ \E v \in TabValues : handleTabChange(v)
    \/ handleExportClick
    \/ handleExportClose
    \/ exportData
    \/ \E e \in exports : FetchRejected(e)
    \/ \E e \in exports, status \in Statuses : FetchResponse(e, status)
    \/ \E e \in exports : BlobResolved(e)
    \/ \E e \in exports : BlobRejected(e)
    \/ \E t \in {NoToken} \cup Tokens : Login(t)
    \/ PageReload

SpecExport == Init /\ [][NextExport]_vars

\* A pending fetch or response.blob() promise settles: it resolves or rejects.
ExportSettles ==
    \E e \in exports :
        \/ FetchRejected(e)
        \/ \E status \in Statuses : FetchResponse(e, status)
        \/ BlobResolved(e)
        \/ BlobRejected(e)

\* The section and its export while the time range stays as it is.
NextExportLoading ==
    \/ Mount
    \/ Unmount
    \/ \E v \in TabValues : handleTabChange(v)
    \/ handleExportClick
    \/ handleExportClose
    \/ exportData
    \/ \E e \in exports : FetchRejected(e)
    \/ \E e \in exports, status \in Statuses : FetchResponse(e, status)
    \/ \E e \in exports : BlobResolved(e)
    \/ \E e \in exports : BlobRejected(e)
    \/ \E t \in {NoToken} \cup Tokens : Login(t)
    \/ PageReload

\* The same, with every pending promise settling in the end.
SpecExportFair ==
    Init /\ [][NextExportLoading]_vars /\ WF_vars(ExportSettles)

\* TemperatureChart rendering the series it is handed.
NextChart == TemperatureChart

SpecChart == InitChart /\ [][NextChart]_vars

\* GaugeChart rendering the props it is handed.
NextGauge == GaugeChart

SpecGauge == InitGauge /\ [][NextGauge]_vars

----------------------------------------------------------------------------
(* Properties *)

\* The cadence table of claim C1, in milliseconds.
ClaimedPeriod(r) ==
    CASE r = "realtime" -> 30 * 1000
      [] r = "24h" -> 60 * 1000
      [] r = "7d" -> 300 * 1000
      [] r = "30d" -> 600 * 1000

\* C1: while a socket is present and range R is selected, the polling timer
\* exists and its period is the one the table gives for R (30 s realtime,
\* 60 s 24h, 300 s 7d, 600 s 30d); a tick of the timer emits exactly one
\* request_historical_data message, whose timeRange is R.
C1_PollCadence ==
    /\ (mounted /\ socket # NoSocket) =>
          /\ timers # {}
          /\ \A t \in timers : t.period = ClaimedPeriod(timeRange)
    /\ out.op = "tick" =>
          /\ Len(out.emits) = 1
          /\ out.emits[1].timeRange = timeRange

\* C1 witness: the 300 s timer of range 7d has ticked.
C1_Witness ==
    /\ out.op = "tick"
    /\ timeRange = "7d"
    /\ \E t \in timers : t.period = 300000

\* C2: at most one interval timer is active; an active timer belongs to the
\* mounted component and has the period and the request payload of the
\* selected time range.
C2_SingleTimer ==
    /\ Cardinality(timers) <= 1
    /\ \A t \in timers :
          /\ mounted
          /\ t.timeRange = timeRange
          /\ t.period = PollPeriod(timeRange)

\* C2 witness: after a time-range change to 30d, and an earlier push, one
\* timer is active.
C2_Witness ==
    /\ out.op = "handleTimeRangeChange"
    /\ timeRange = "30d"
    /\ historicalData # InitialBundle
    /\ Cardinality(timers) = 1

\* C3: a historical_data_update push received while the listener is
\* registered makes the bundle exactly the payload and refreshes lastUpdate;
\* it leaves the time range, the active tab and the export state unchanged.
C3_PushReplacesBundle ==
    [][(/\ out'.op = "push"
        /\ mounted
        /\ listeners[out'.received[1].socket] > 0)
       => /\ historicalData' = out'.received[1].data
          /\ lastUpdate' = now'
          /\ UNCHANGED <<timeRange, activeTab, exportLoading, exportAnchorEl,
                         exports>>]_vars

\* C3 witness: a push was applied over an earlier bundle, after the clock
\* moved, with another tab and range selected and the export menu open.
C3_Witness ==
    /\ out.op = "push"
    /\ mounted
    /\ listeners[out.received[1].socket] > 0
    /\ historicalData = out.received[1].data
    /\ lastUpdate = 1
    /\ activeTab = 1
    /\ timeRange = "24h"
    /\ exportAnchorEl

\* C4, as claimed: a push that changes the displayed bundle brings data for
\* the selected time range (a push answering a request for an earlier range
\* is not displayed).
C4_DisplayedBundleIsForSelectedRange ==
    [][(mounted /\ out'.op = "push" /\ historicalData' # historicalData)
       => historicalData'.range = timeRange']_vars

\* C5: the selected time range is always one of realtime, 1h, 24h, 7d, 30d;
\* it is realtime after mount; within an instance it changes only in
\* handleTimeRangeChange; a toggle event with value null leaves it unchanged
\* and emits no request.
C5_TimeRange ==
    /\ [](timeRange \in {"realtime", "1h", "24h", "7d", "30d"})
    /\ [][/\ out'.op = "mount" => timeRange' = "realtime"
          /\ (mounted /\ mounted' /\ timeRange' # timeRange)
                => out'.op = "handleTimeRangeChange"
          /\ handleTimeRangeChange(Null)
                => (timeRange' = timeRange /\ out'.emits = <<>>)]_vars

\* C5 witness: a null toggle event while 7d is selected and a socket is
\* present: no request was emitted.
C5_Witness ==
    /\ out.op = "handleTimeRangeChange"
    /\ out.emits = <<>>
    /\ socket # NoSocket
    /\ timeRange = "7d"

\* C6, as claimed: the merged series has one entry per NOC sample, in order,
\* with that sample's timestamp and value; its UPS value is the value of
\* the UPS sample at the same index whenever there is one (0 included), and
\* null only when there is none.
C6_IndexPairing ==
    rendered =>
        /\ Len(mergedData) = Len(nocData)
        /\ \A i \in 1..Len(nocData) :
              /\ mergedData[i].timestamp = nocData[i].timestamp
              /\ mergedData[i].nocTemperature = nocData[i].value
              /\ i <= Len(upsData)
                    => mergedData[i].upsTemperature = Some(upsData[i].value)
              /\ i > Len(upsData)
                    => mergedData[i].upsTemperature = JsNull

\* C7: an export request is sent only by exportData and only when a token
\* is stored, and carries that token as a Bearer credential; with no token
\* stored exportData sends no request, triggers no download, reports an
\* error and leaves the time range, the active tab and the bundle unchanged.
C7_ExportAuthenticated ==
    [][/\ out'.http # <<>> =>
             /\ out'.op = "exportData"
             /\ Len(out'.http) = 1
             /\ token # NoToken
             /\ out'.http[1].authorization =
                    [scheme |-> "Bearer", credentials |-> token]
       /\ (out'.op = "exportData" /\ token = NoToken) =>
             /\ out'.http = <<>>
             /\ out'.downloads = <<>>
             /\ exports' = exports
             /\ out'.alerts # <<>>
             /\ UNCHANGED <<timeRange, activeTab, historicalData>>]_vars

\* C7 witness: exportData ran with no token stored, on tab 2 and range 7d.
C7_Witness ==
    /\ out.op = "exportData"
    /\ token = NoToken
    /\ out.alerts = <<"Authentication token not found">>
    /\ activeTab = 2
    /\ timeRange = "7d"

\* C8: when the export response is not OK no download is triggered, now or
\* later, and an error is reported; the token is removed and a reload is
\* triggered exactly when the status is 401.
C8_StatusCheck ==
    [][\A e \in exports, status \in Statuses :
          (FetchResponse(e, status) /\ ~(200 <= status /\ status <= 299))
          => /\ out'.downloads = <<>>
             /\ out'.alerts # <<>>
             /\ \A x \in exports' : x.id # e.id
             /\ status = 401 =>
                   (token' = NoToken /\ out'.reload /\ reloadPending')
             /\ status # 401 =>
                   (/\ token' = token
                    /\ ~out'.reload
                    /\ reloadPending' = reloadPending)]_vars

\* C8 witness: a 401 response: the token is gone and a reload is under way.
C8_Witness ==
    /\ out.op = "fetchResponse"
    /\ out.reload
    /\ reloadPending
    /\ token = NoToken
    /\ out.alerts # <<>>
    /\ out.downloads = <<>>

\* C9, as claimed: every request carries the selected range (the range being
\* selected, in handleTimeRangeChange); a request is emitted on mount, and a
\* request for the new range on each time-range change; no timer is left
\* that would emit for another range.
C9_RequestsCarrySelectedRange ==
    [][/\ \A i \in 1..Len(out'.emits) : out'.emits[i].timeRange = timeRange'
       /\ \A t \in timers' : t.timeRange = timeRange'
       /\ out'.op = "mount" => out'.emits # <<>>
       /\ (mounted /\ mounted' /\ timeRange' # timeRange)
             => out'.emits # <<>>]_vars

\* C9, amended: every request carries the selected range (the range being
\* selected, in handleTimeRangeChange); when a socket is present a request
\* is emitted on mount, and a request for the new range on each time-range
\* change, and with no socket neither emits anything; no timer is left that
\* would emit for another range.
C9_RequestsCarrySelectedRangeWithSocket ==
    [][/\ \A i \in 1..Len(out'.emits) : out'.emits[i].timeRange = timeRange'
       /\ \A t \in timers' : t.timeRange = timeRange'
       /\ out'.op = "mount" => (out'.emits # <<>> <=> socket # NoSocket)
       /\ (mounted /\ mounted' /\ timeRange' # timeRange)
             => (out'.emits # <<>> <=> socket # NoSocket)]_vars

\* C9 witness: after a change to 30d the timer ticked and asked for 30d.
C9_Witness ==
    /\ out.op = "tick"
    /\ timeRange = "30d"
    /\ out.emits = <<Request(socket, "30d")>>

\* The endpoint table of claim C10.
ClaimedEndpoint(tab) ==
    CASE tab = 0 -> "temperature"
      [] tab = 1 -> "humidity"
      [] tab = 2 -> "electrical"

\* C10: the export request names the endpoint of the active tab (another
\* tab value fails with no request) and the selected time range; the
\* invocation keeps both while it is in flight, and the file name it
\* downloads under carries them, whatever is selected by then.
C10_ExportMatchesView ==
    [][/\ out'.op = "exportData" =>
             IF activeTab \in {0, 1, 2}
             THEN \A i \in 1..Len(out'.http) :
                     /\ out'.http[i].endpoint = ClaimedEndpoint(activeTab)
                     /\ out'.http[i].timeRange = timeRange
                     /\ \E e \in exports' \ exports :
                           /\ e.endpoint = out'.http[i].endpoint
                           /\ e.timeRange = out'.http[i].timeRange
             ELSE /\ out'.http = <<>>
                  /\ out'.alerts # <<>>
                  /\ exports' = exports
       /\ \A e \in exports, x \in exports' :
             x.id = e.id => (x.endpoint = e.endpoint /\ x.timeRange = e.timeRange)
       /\ out'.downloads # <<>> =>
             /\ Len(out'.downloads) = 1
             /\ \E e \in exports \ exports' :
                   /\ out'.downloads[1].endpoint = e.endpoint
                   /\ out'.downloads[1].timeRange = e.timeRange]_vars

\* C10 witness: a file was downloaded by an export of the mounted instance
\* after the user had selected another tab and another time range.
C10_Witness ==
    /\ out.op = "blobResolved"
    /\ mounted
    /\ out.downloads # <<>>
    /\ out.downloads[1].endpoint = "humidity"
    /\ out.downloads[1].timeRange = "24h"
    /\ activeTab = 2
    /\ timeRange = "7d"

OwnExports == {e \in exports : e.live}

C12_OnlyWithSocketWhileMounted ==
    /\ [](/\ \A t \in timers :
                mounted /\ socket # NoSocket /\ t.socket = socket
          /\ \A s \in Sockets :
                listeners[s] = IF mounted /\ socket = s THEN 1 ELSE 0
          /\ Cardinality(timers) = IF mounted /\ socket # NoSocket THEN 1 ELSE 0
          /\ (cleanup # <<>>) <=> (mounted /\ socket # NoSocket))
    /\ [][/\ out'.emits # <<>> =>
                /\ mounted'
                /\ socket' # NoSocket
                /\ \A i \in 1..Len(out'.emits) : out'.emits[i].socket = socket'
          /\ (mounted /\ mounted' /\
              <<historicalData, lastUpdate>>' # <<historicalData, lastUpdate>>)
                => /\ out'.op = "push"
                   /\ socket # NoSocket
                   /\ out'.received[1].socket = socket
          /\ (out'.op = "push" /\ out'.received[1].socket # socket)
                => UNCHANGED component]_vars

\* C12 witness: after the socket changed from s1 to s2, the answer to a
\* request sent on s1 arrived and was not applied.
C12_Witness ==
    /\ out.op = "push"
    /\ mounted
    /\ socket = "s2"
    /\ out.received[1].socket = "s1"
    /\ historicalData = InitialBundle
    /\ listeners["s2"] = 1

\* The sum of the value fields of a list of slices.
RECURSIVE SliceSum(_)
SliceSum(slices) ==
    IF slices = <<>> THEN Whole(0)
    ELSE FracAdd(Head(slices).value, SliceSum(Tail(slices)))

\* C13: for min < max the fill percentage lies in [0, 100], is 0 when
\* value <= min and 100 when value >= max; the Value and Empty slices sum
\* to 100; the five background zone widths sum to 100 for any thresholds.
C13_GaugeClamped ==
    gauge # <<>> =>
        LET g == gauge[1]
            p == gaugeProps
        IN /\ g.percentage.den > 0
           /\ FracLeq(Whole(0), g.percentage)
           /\ FracLeq(g.percentage, Whole(100))
           /\ p.value <= p.min => FracEq(g.percentage, Whole(0))
           /\ p.value >= p.max => FracEq(g.percentage, Whole(100))
           /\ Len(g.data) = 2
           /\ FracEq(SliceSum(g.data), Whole(100))
           /\ Len(g.backgroundData) = 5
           /\ FracEq(SliceSum(g.backgroundData), Whole(100))

\* C13 witness: a gauge with a value above max and thresholds out of order
\* was rendered full.
C13_Witness ==
    /\ gauge # <<>>
    /\ gaugeProps.value > gaugeProps.max
    /\ gaugeProps.warning[1] > gaugeProps.danger[2]
    /\ FracEq(gauge[1].percentage, Whole(100))

====
